---- MODULE Spec2Model ----
(***************************************************************************)
(* The advanced task manager (src/main.py, class TaskManager) as a state   *)
(* machine: one dispatcher loop (run) that reads a menu choice, runs the   *)
(* matching command and then the recurrence sweep, with every mutating     *)
(* command ending in the persistence pipeline _save_tasks (roster write,   *)
(* snapshot, shared-file merge).                                           *)
(*                                                                         *)
(* Time is an integer number of days.  A due-date string is a record       *)
(* [fmt, at]: fmt is the textual form ("date" for YYYY-MM-DD, "iso" for    *)
(* the full isoformat() text), at the instant datetime.fromisoformat       *)
(* reads from it.  Only well-formed date strings are entered.              *)
(* A Task carries id, title, priority, due_date, completed, progress and   *)
(* recurring; description, category, created_at, effort_hours and          *)
(* dependencies are free payload handled like title and are left out.      *)
(***************************************************************************)
EXTENDS Integers, Sequences, FiniteSets, TLC

VARIABLES
    pc,                 \* dispatcher position: "menu", "sweep", "draining",
                        \* "crashed", "exited"
    now,                \* the wall clock read by datetime.now()
    tasks,              \* current_user.tasks
    points,             \* current_user.points
    milestone_history,  \* current_user.milestone_history
    undo_stack,         \* self.undo_stack
    categories,         \* self.categories
    next_uuid,          \* the next value uuid.uuid4() hands out
    shared_tasks_file,  \* shared_tasks.json, written only by other parties
    cloud_tasks_file,   \* cloud_tasks.json
    export_file,        \* the file export_tasks writes and import_tasks reads
    users_json,         \* users.json as last written by _save_users
    saves,              \* number of persistence pipelines started by commands and sweeps
    rounds,             \* the _save_tasks calls the last command or sweep ran
    last,               \* the last command: what was asked, what it printed,
                        \* and the list display_tasks showed when it began
    users,              \* the usernames of self.users, the roster _load_users returned
    listed,             \* whether current_user is one of self.users.values()
    io_fault,           \* the file whose open() or write raises OSError now, or "none"
    notification_queue, \* self.notification_queue, filled by the notifier thread
    queue,              \* the Queue local to run, handed to idle_animation
    spawned,            \* history: <<id of a task, id of the clone a sweep made of it>>
    basic_tasks,        \* task_manager.py: the list `tasks` of main
    tasks_json,         \* task_manager.py: tasks.json
    basic_last          \* task_manager.py: the last command and the list it found

vars == <<pc, now, tasks, points, milestone_history, undo_stack, categories,
          next_uuid, shared_tasks_file, cloud_tasks_file, export_file,
          users_json, saves, rounds, last, users, listed, io_fault, spawned,
          notification_queue, queue, basic_tasks, tasks_json, basic_last>>

(* ---------------------------------------------------------------- bounds *)

\* commands that save are offered while fewer than MaxSaves rounds have run
MaxSaves == 3
\* the clock stops advancing at MaxTime
MaxTime == 2

(* ------------------------------------------------------- program constants *)

BasePoints == 10
PriorityBonus == 5
TimelinessBonus == 5
Milestone == 50
DailyDays == 1
WeeklyDays == 7

(* ------------------------------------------------------------- data model *)

Task(id, title, priority, due, completed, progress, recurring) ==
    [id |-> id, title |-> title, priority |-> priority, due_date |-> due,
     completed |-> completed, progress |-> progress, recurring |-> recurring]

\* datetime.isoformat(): the full ISO text of an instant
isoformat(t) == [fmt |-> "iso", at |-> t]

\* datetime.fromisoformat(): the instant a well-formed date string denotes;
\* "YYYY-MM-DD" reads as midnight of that day
fromisoformat(d) == d.at

\* a date typed by the user as YYYY-MM-DD
DateText(t) == [fmt |-> "date", at |-> t]

\* str.lower() on the texts the model enters
lower(s) ==
    IF s = "HIGH" THEN "high" ELSE IF s = "PRIORITY" THEN "priority" ELSE s

\* a JSON file on disk: absent, or an array of tasks
NoFile == [exists |-> FALSE, data |-> <<>>]
FileOf(ts) == [exists |-> TRUE, data |-> ts]

Ids(ts) == {ts[i].id : i \in 1..Len(ts)}

\* a lookup that settles for the first task when no task has the id
find_or_first(ts, id) ==
    IF \E i \in 1..Len(ts) : ts[i].id = id
    THEN CHOOSE i \in 1..Len(ts) : ts[i].id = id /\ \A j \in 1..(i - 1) : ts[j].id # id
    ELSE IF ts = <<>> THEN 0 ELSE 1

\* next((t for t in tasks if t.id == task_id), None): index of the first match, 0 for None
Find(ts, id) ==
    IF \E i \in 1..Len(ts) : ts[i].id = id
    THEN CHOOSE i \in 1..Len(ts) : ts[i].id = id /\ \A j \in 1..(i - 1) : ts[j].id # id
    ELSE 0

(* -------------------------------------------------------- sync and saving *)

\* task_dict[task.id] = task on a dict kept as its list of values in
\* insertion order: an id already present keeps its place and takes the
\* new task, a new id goes to the end
DictPut(d, t) ==
    IF \E i \in 1..Len(d) : d[i].id = t.id
    THEN [i \in 1..Len(d) |-> IF d[i].id = t.id THEN t ELSE d[i]]
    ELSE Append(d, t)

RECURSIVE DictFrom(_, _)
DictFrom(d, ts) ==
    IF ts = <<>> THEN d ELSE DictFrom(DictPut(d, Head(ts)), Tail(ts))

\* a merge that never overwrites: the external tasks are only added
merge_append_only(current, external) == current \o external

\* the merge of _sync_shared_tasks and _sync_cloud_tasks:
\* {t.id: t for t in current}, then each external task assigned by id,
\* then list(task_dict.values())
merge_by_id(current, external) == DictFrom(DictFrom(<<>>, current), external)

\* _sync_shared_tasks on the list ts: nothing when shared_tasks.json is
\* absent; otherwise the merge, followed by _save_tasks again, which merges
\* the same file again and so on until the interpreter's recursion limit
\* raises RecursionError, which the except clause logs.  Merging the same
\* file twice gives the same list as merging it once.
\* An OSError on reading the file is logged by the same except clause,
\* before any merge.
sync_shared_tasks(ts) ==
    IF shared_tasks_file.exists /\ io_fault # "shared_tasks.json"
    THEN merge_by_id(ts, shared_tasks_file.data)
    ELSE ts

\* what _save_users leaves in users.json for the current user
Roster(ts, pts, hist) ==
    [state |-> "ok", tasks |-> ts, points |-> pts, history |-> hist]
NoRoster == [state |-> "absent", tasks |-> <<>>, points |-> 0, history |-> <<>>]
Truncated == [state |-> "truncated", tasks |-> <<>>, points |-> 0, history |-> <<>>]
\* users.json holding other users only: the dump goes over self.users.values()
Unlisted == [state |-> "unlisted", tasks |-> <<>>, points |-> 0, history |-> <<>>]

\* users.json holding JSON of another shape than a list of user objects
Malformed == [state |-> "malformed", tasks |-> <<>>, points |-> 0, history |-> <<>>]

\* User(username, password_hash, tasks, points, avatar, milestone_history)
User(username, ts, pts, hist) ==
    [username |-> username, tasks |-> ts, points |-> pts, history |-> hist]

\* User("default", "default123")
DefaultUser == User("default", <<>>, 0, <<>>)

\* a _load_users whose except clauses return no roster
load_users_unguarded(file, fault) ==
    IF file.state = "ok" /\ fault # "users.json"
    THEN {User("default", file.tasks, file.points, file.history)}
    ELSE IF file.state = "unlisted" /\ fault # "users.json"
    THEN {User("other", <<>>, 0, <<>>)}
    ELSE IF file.state = "absent" THEN {DefaultUser}
    ELSE {}

\* _load_users with `fault` the file whose open() raises: the roster read
\* from users.json, or the fallback roster when the file is missing, when
\* json.load raises JSONDecodeError and when anything else raises
load_users(file, fault) ==
    IF file.state = "absent" THEN {DefaultUser}
    ELSE IF fault = "users.json" THEN {DefaultUser}
    ELSE IF file.state = "truncated" THEN {DefaultUser}
    ELSE IF file.state = "ok"
    THEN {User("default", file.tasks, file.points, file.history)}
    ELSE IF file.state = "unlisted" THEN {User("other", <<>>, 0, <<>>)}
    ELSE {DefaultUser}

\* self.users.get("default", User("default", "default123"))
default_user(loaded) ==
    IF \E u \in loaded : u.username = "default"
    THEN CHOOSE u \in loaded : u.username = "default"
    ELSE DefaultUser

\* the entry _save_users writes for the current user
Entry(ts, pts, hist) == IF listed THEN Roster(ts, pts, hist) ELSE Unlisted

\* users.json after one _save_tasks round.  Without a shared file it is
\* written once.  With one, it is rewritten at every level of the
\* recursion, and the deepest rewrite either completes or is cut short by
\* RecursionError inside json.dump after open(..., "w") emptied the file.
\* An OSError from open("users.json", "w") or from the backup copy is
\* logged by _save_users: the first leaves the file as it was, the second
\* leaves it written.  An OSError in _backup_tasks ends the round after the
\* first roster write.
save_users(ts, pts, hist) ==
    IF io_fault = "users.json" THEN {users_json}
    ELSE IF io_fault = "backup_tasks" THEN {Entry(ts, pts, hist)}
    ELSE IF shared_tasks_file.exists /\ io_fault # "shared_tasks.json"
    THEN {Entry(sync_shared_tasks(ts), pts, hist), Truncated}
    ELSE {Entry(ts, pts, hist)}

\* _backup_tasks has no try: an OSError from its open() or json.dump leaves
\* _save_tasks before the sync, towards the caller
snapshot_raises == io_fault = "backup_tasks"

\* where a command that called _save_tasks goes next, and what it has said
returned == IF snapshot_raises THEN "crashed" ELSE "sweep"
Outcome(o) == IF snapshot_raises THEN "OSError" ELSE o

\* the nested _save_tasks calls at which the interpreter raises
\* RecursionError (sys.getrecursionlimit() frames in CPython)
RecursionLimit == 3

\* the _save_tasks calls of one pipeline: _sync_shared_tasks ends with
\* self._save_tasks() whenever it has read the shared file, and the inner
\* call syncs again, until RecursionError is raised and logged
save_rounds ==
    IF snapshot_raises THEN 1
    ELSE IF shared_tasks_file.exists /\ io_fault # "shared_tasks.json"
    THEN RecursionLimit
    ELSE 1

\* _save_tasks after a command has left the list ts, the points pts and the
\* history hist in memory
save_tasks(ts, pts, hist) ==
    /\ tasks' = IF snapshot_raises THEN ts ELSE sync_shared_tasks(ts)
    /\ users_json' \in save_users(ts, pts, hist)
    /\ saves' = saves + 1
    /\ rounds' = save_rounds

(* ------------------------------------------------------------------ points *)

\* _calculate_points without the timeliness bonus
calculate_points_untimed(task, t) ==
    BasePoints + (IF task.priority = "high" THEN PriorityBonus ELSE 0)

\* _calculate_points, with t the instant its datetime.now() returns
calculate_points(task, t) ==
    BasePoints
    + (IF task.priority = "high" THEN PriorityBonus ELSE 0)
    + (IF t <= fromisoformat(task.due_date) THEN TimelinessBonus ELSE 0)

\* the completion record toggle_complete appends; t2 is the instant of the
\* datetime.now() call in the record's own timeliness test
CompletionRecord(task, earned, t2) ==
    [task_id |-> task.id, title |-> task.title, points |-> earned,
     priority_bonus |-> IF task.priority = "high" THEN PriorityBonus ELSE 0,
     timeliness_bonus |-> IF t2 <= fromisoformat(task.due_date)
                          THEN TimelinessBonus ELSE 0]

MilestoneRecord == [milestone |-> Milestone]

\* any(m["points"] == 50 for m in history if "milestone" in m):
\* "true", "false", or "KeyError" when a record that has the key
\* "milestone" has no key "points"
\* a check that never finds the milestone record
milestone_never_recorded(hist) == "false"

RECURSIVE milestone_recorded(_)
milestone_recorded(hist) ==
    IF hist = <<>> THEN "false"
    ELSE IF "milestone" \notin DOMAIN Head(hist) THEN milestone_recorded(Tail(hist))
    ELSE IF "points" \notin DOMAIN Head(hist) THEN "KeyError"
    ELSE IF Head(hist).points = Milestone THEN "true"
    ELSE milestone_recorded(Tail(hist))

(* ------------------------------------------------------------ observation *)

Snapshot == [tasks |-> tasks, points |-> points, history |-> milestone_history]
NoSnapshot == [tasks |-> <<>>, points |-> 0, history |-> <<>>]

\* the record of a command: the menu choice, the task id typed, how it
\* ended, the "Points earned" it printed, and what the screen showed first
Said(op, id, outcome, award, before) ==
    [op |-> op, id |-> id, outcome |-> outcome, award |-> award, before |-> before]
Nothing == Said("none", 0, "none", 0, NoSnapshot)

\* the screen is cleared when the menu comes back; a toggle or a delete
\* that went through is remembered until the next command, so that "twice"
\* and "immediately followed by" can be said of two commands in a row
Remembered(said) ==
    IF said.outcome \in {"toggled", "deleted"} THEN said ELSE Nothing

(* -------------------------------------------------------------------- Init *)

\* task_manager.py is not running
BasicIdle ==
    /\ basic_tasks = <<>>
    /\ tasks_json = NoFile
    /\ basic_last = [op |-> "none", key |-> "", before |-> <<>>]

\* A session starts from the roster on disk.  Without users.json it is
\* the default user.
MainState(pts, hist, roster) ==
    /\ pc = "menu"
    /\ now = 0
    /\ tasks = <<>>
    /\ points = pts
    /\ milestone_history = hist
    /\ users_json = roster
    /\ users = {u.username : u \in load_users(roster, "none")}
    /\ undo_stack = <<>>
    /\ categories = {}
    /\ next_uuid = 1
    /\ shared_tasks_file = NoFile
    /\ cloud_tasks_file = NoFile
    /\ export_file = NoFile
    /\ saves = 0
    /\ rounds = 0
    /\ last = Nothing
    /\ notification_queue = <<>>
    /\ queue = <<>>
    /\ spawned = {}

StartState(pts, hist, roster) == MainState(pts, hist, roster) /\ BasicIdle

Init == StartState(0, <<>>, NoRoster) /\ listed = TRUE /\ io_fault = "none"

\* The rosters two earlier sessions left behind.  In the first the user
\* completed a late low-priority task (10), a late high-priority task (15)
\* and a timely high-priority task (20) and deleted them: 45 points.  In
\* the second the user went on to complete one more late high-priority
\* task: 60 points, and the milestone record that completion appended.
HistoryAt45 ==
    << [task_id |-> 301, title |-> "a", points |-> 10,
        priority_bonus |-> 0, timeliness_bonus |-> 0],
       [task_id |-> 302, title |-> "a", points |-> 15,
        priority_bonus |-> 5, timeliness_bonus |-> 0],
       [task_id |-> 303, title |-> "b", points |-> 20,
        priority_bonus |-> 5, timeliness_bonus |-> 5] >>

HistoryAt60 ==
    HistoryAt45 \o
    << [task_id |-> 304, title |-> "a", points |-> 15,
        priority_bonus |-> 5, timeliness_bonus |-> 0],
       MilestoneRecord >>

InitReturning ==
    /\ \/ StartState(45, HistoryAt45, Roster(<<>>, 45, HistoryAt45))
       \/ StartState(60, HistoryAt60, Roster(<<>>, 60, HistoryAt60))
    /\ listed = TRUE
    /\ io_fault = "none"

\* A session of a user whose roster entry holds one daily task, due at
\* the moment the session starts.
DailyTask == Task(1, "a", "low", DateText(0), FALSE, 0, "daily")

InitRecurring ==
    /\ pc = "menu"
    /\ now = 0
    /\ tasks = <<DailyTask>>
    /\ points = 0
    /\ milestone_history = <<>>
    /\ users_json = Roster(<<DailyTask>>, 0, <<>>)
    /\ users = {"default"}
    /\ undo_stack = <<>>
    /\ categories = {"general"}
    /\ next_uuid = 2
    /\ shared_tasks_file = NoFile
    /\ cloud_tasks_file = NoFile
    /\ export_file = NoFile
    /\ saves = 0
    /\ rounds = 0
    /\ last = Nothing
    /\ notification_queue = <<>>
    /\ queue = <<>>
    /\ spawned = {}
    /\ BasicIdle
    /\ listed = TRUE
    /\ io_fault = "none"

\* _authenticate: a user of the roster whose password matches is the
\* current user; otherwise it is the roster's "default" user, and when the
\* roster has none, a new User object that is in no roster.  The sessions
\* here start without tasks: with no users.json (the default user of the
\* fallback roster), or with a users.json that has no "default" user and
\* credentials that match no one.
authenticate ==
    /\ \/ StartState(0, <<>>, NoRoster) /\ listed = TRUE
       \/ StartState(0, <<>>, Unlisted) /\ listed = FALSE
    /\ io_fault = "none"

(* ------------------------------------------------------------------ inputs *)

\* what the user types at a prompt: "" is the empty line
Blank == ""
BlankDue == [fmt |-> "blank", at |-> 0]
\* a typed progress: nothing, the decimal text of an integer, or other text
NoProgress == [kind |-> "blank", val |-> 0]
IntText(n) == [kind |-> "int", val |-> n]
OtherText == [kind |-> "text", val |-> 0]

\* input(...) or default
OrElse(typed, default) == IF typed = Blank THEN default ELSE typed
DueOrElse(typed, default) == IF typed.fmt = "blank" THEN default ELSE typed

\* the answers to "Accept AI suggestion and edit details?" and what follows
NoAi == [accept |-> FALSE, title |-> Blank, priority |-> Blank,
         progress |-> NoProgress, recurring |-> Blank]

\* the answers given to add_task's prompts
PlainAdd == [title |-> "a", priority |-> Blank, due |-> BlankDue,
             progress |-> NoProgress, recurring |-> Blank, ai |-> NoAi]

AddInputs ==
    { PlainAdd,
      [PlainAdd EXCEPT !.priority = "HIGH", !.due = DateText(1), !.recurring = "daily"],
      [PlainAdd EXCEPT !.title = "b", !.priority = "medium", !.due = DateText(1),
                       !.progress = IntText(100), !.recurring = "weekly"],
      [PlainAdd EXCEPT !.progress = IntText(150)],
      [PlainAdd EXCEPT !.progress = IntText(0 - 1)],
      [PlainAdd EXCEPT !.progress = OtherText],
      [PlainAdd EXCEPT !.priority = "urgent"],
      [PlainAdd EXCEPT !.recurring = "yearly"],
      [PlainAdd EXCEPT !.ai = [NoAi EXCEPT !.accept = TRUE, !.title = "b",
                                           !.priority = "urgent"]],
      [PlainAdd EXCEPT !.ai = [NoAi EXCEPT !.accept = TRUE, !.title = "b",
                                           !.progress = OtherText]] }

\* the two plainest of them
SyncAddInputs ==
    { PlainAdd,
      [PlainAdd EXCEPT !.priority = "HIGH", !.due = DateText(1), !.recurring = "daily"] }

\* the answers given to edit_task's prompts
NoEdit == [title |-> Blank, priority |-> Blank, due |-> BlankDue,
           progress |-> NoProgress, recurring |-> Blank]

EditInputs ==
    { [NoEdit EXCEPT !.title = "b"],
      [NoEdit EXCEPT !.priority = "urgent"],
      [NoEdit EXCEPT !.progress = IntText(150)],
      [NoEdit EXCEPT !.title = "b", !.due = DateText(2), !.progress = OtherText],
      [NoEdit EXCEPT !.recurring = "yearly"] }

\* ids of tasks made by other parties
ForeignIds == {201}

\* the task ids typed at a prompt: the id of a listed task, or 0 for an
\* id that no listed task has
IdInputs == Ids(tasks) \cup {0}

\* a task as another party wrote it to a shared file
Ext(id, title) == Task(id, title, "low", DateText(1), TRUE, 0, "none")

\* contents another party gives shared_tasks.json
SharedArrays ==
    { <<Ext(201, "x"), Ext(1, "x")>>,
      <<Ext(201, "x"), Ext(201, "y")>> }

(* ---------------------------------------------------------------- commands *)

\* what a command leaves alone besides the user's data
OtherFilesUnchanged == UNCHANGED <<shared_tasks_file, cloud_tasks_file, export_file>>

\* a command that returns without touching anything but the screen
OnlySaid(said) ==
    /\ last' = said
    /\ pc' = "sweep"
    /\ UNCHANGED <<now, tasks, points, milestone_history, undo_stack, categories,
                   next_uuid, shared_tasks_file, cloud_tasks_file, export_file,
                   users_json, saves, rounds>>

\* a test that lets everything through
valid_anything(progress, priority, recurring) == TRUE

\* the test of add_task before the task is built (line 206)
valid_input(progress, priority, recurring) ==
    /\ 0 <= progress /\ progress <= 100
    /\ priority \in {"low", "medium", "high"}
    /\ recurring \in {"none", "daily", "weekly"}

\* the follow-up edit of add_task on the task at index i of ts, up to the
\* point where int() raises ValueError on a progress that is no integer
ai_edit(ts, i, ai) ==
    LET t0 == ts[i]
        t1 == [t0 EXCEPT !.title = OrElse(ai.title, "New Task Item"),
                         !.priority = OrElse(ai.priority, "low")]
        t2 == IF ai.progress.kind = "text" THEN t1
              ELSE [t1 EXCEPT !.progress = ai.progress.val,
                              !.recurring = OrElse(ai.recurring, t0.recurring)]
    IN  [ts EXCEPT ![i] = t2]

\* menu choice 1
add_task(inp) ==
    /\ pc = "menu"
    /\ UNCHANGED <<users, listed, io_fault, notification_queue, queue, spawned,
                   basic_tasks, tasks_json, basic_last>>
    /\ saves < MaxSaves
    /\ LET priority == OrElse(lower(inp.priority), "low")
           due == DueOrElse(inp.due, isoformat(now))
           recurring == OrElse(lower(inp.recurring), "none")
       IN  IF \/ inp.progress.kind = "text"
              \/ ~valid_input(inp.progress.val, priority, recurring)
           THEN OnlySaid(Said("add", 0, IF inp.progress.kind = "text"
                                        THEN "not a number" ELSE "rejected",
                              0, Snapshot))
           ELSE LET task == Task(next_uuid, inp.title, priority, due, FALSE,
                                 inp.progress.val, recurring)
                    created == Append(tasks, task)
                    merged == sync_shared_tasks(created)
                    edited == ai_edit(merged, Find(merged, next_uuid), inp.ai)
                IN  /\ next_uuid' = next_uuid + 1
                    /\ pc' = returned
                    /\ IF ~inp.ai.accept \/ snapshot_raises
                       THEN /\ save_tasks(created, points, milestone_history)
                            /\ last' = Said("add", next_uuid, Outcome("created"), 0, NoSnapshot)
                       ELSE IF inp.ai.progress.kind = "text"
                       THEN /\ tasks' = edited
                            /\ users_json' \in save_users(created, points, milestone_history)
                            /\ saves' = saves + 1
                            /\ rounds' = save_rounds
                            /\ last' = Said("add", next_uuid, "error", 0, NoSnapshot)
                       ELSE /\ tasks' = sync_shared_tasks(edited)
                            /\ users_json' \in save_users(edited, points, milestone_history)
                            /\ saves' = saves + 2
                            /\ rounds' = save_rounds + save_rounds
                            /\ last' = Said("add", next_uuid, "updated", 0, NoSnapshot)
                    /\ UNCHANGED <<now, points, milestone_history, undo_stack, categories>>
                    /\ OtherFilesUnchanged

\* the assignments of edit_task to the task at index i, in their order, up
\* to the point where int() raises ValueError
edit_fields(ts, i, inp) ==
    LET t0 == ts[i]
        t1 == [t0 EXCEPT !.title = OrElse(inp.title, t0.title),
                         !.priority = OrElse(inp.priority, t0.priority),
                         !.due_date = DueOrElse(inp.due, t0.due_date)]
        t2 == IF inp.progress.kind = "text" THEN t1
              ELSE [t1 EXCEPT !.progress = IF inp.progress.kind = "blank"
                                           THEN t0.progress ELSE inp.progress.val,
                              !.recurring = OrElse(inp.recurring, t0.recurring)]
    IN  [ts EXCEPT ![i] = t2]

\* menu choice 2
edit_task(id, inp) ==
    /\ pc = "menu"
    /\ UNCHANGED <<users, listed, io_fault, notification_queue, queue, spawned,
                   basic_tasks, tasks_json, basic_last>>
    /\ saves < MaxSaves
    /\ LET i == Find(tasks, id)
       IN  IF i = 0
           THEN OnlySaid(Said("edit", id, "not found", 0, Snapshot))
           ELSE IF inp.progress.kind = "text"
           THEN /\ tasks' = edit_fields(tasks, i, inp)
                /\ last' = Said("edit", id, "error", 0, Snapshot)
                /\ pc' = "sweep"
                /\ UNCHANGED <<now, points, milestone_history, undo_stack, categories,
                               next_uuid, users_json, saves, rounds>>
                /\ OtherFilesUnchanged
           ELSE /\ save_tasks(edit_fields(tasks, i, inp), points, milestone_history)
                /\ last' = Said("edit", id, Outcome("updated"), 0, Snapshot)
                /\ pc' = returned
                /\ UNCHANGED <<now, points, milestone_history, undo_stack, categories,
                               next_uuid>>
                /\ OtherFilesUnchanged

\* [t for t in tasks if t.id != task_id]
RECURSIVE without_id(_, _)
without_id(ts, id) ==
    IF ts = <<>> THEN <<>>
    ELSE IF Head(ts).id = id THEN without_id(Tail(ts), id)
    ELSE <<Head(ts)>> \o without_id(Tail(ts), id)

\* menu choice 3
delete_task(id) ==
    /\ pc = "menu"
    /\ UNCHANGED <<users, listed, io_fault, notification_queue, queue, spawned,
                   basic_tasks, tasks_json, basic_last>>
    /\ saves < MaxSaves
    /\ LET i == Find(tasks, id)
       IN  IF i = 0
           THEN OnlySaid(Said("delete", id, "not found", 0, Snapshot))
           ELSE /\ undo_stack' = Append(undo_stack, tasks[i])
                /\ save_tasks(without_id(tasks, id), points, milestone_history)
                /\ last' = Said("delete", id, Outcome("deleted"), 0, Snapshot)
                /\ pc' = returned
                /\ UNCHANGED <<now, points, milestone_history, categories, next_uuid>>
                /\ OtherFilesUnchanged

\* menu choice 4
undo_delete ==
    /\ pc = "menu"
    /\ UNCHANGED <<users, listed, io_fault, notification_queue, queue, spawned,
                   basic_tasks, tasks_json, basic_last>>
    /\ saves < MaxSaves
    /\ IF undo_stack = <<>>
       THEN OnlySaid(Said("undo", 0, "nothing", 0, NoSnapshot))
       ELSE LET task == undo_stack[Len(undo_stack)]
            IN  /\ undo_stack' = SubSeq(undo_stack, 1, Len(undo_stack) - 1)
                /\ save_tasks(Append(tasks, task), points, milestone_history)
                /\ last' = Said("undo", task.id, Outcome("undone"), 0, NoSnapshot)
                /\ pc' = returned
                /\ UNCHANGED <<now, points, milestone_history, categories, next_uuid>>
                /\ OtherFilesUnchanged

\* a toggle that leaves the flag as it is
flip_nothing(ts, i) == ts

\* task.completed = not task.completed on the task at index i
flip(ts, i) == [ts EXCEPT ![i].completed = ~ts[i].completed]

\* menu choice 5; t2 is the clock at the second datetime.now() of a completion
toggle_complete(id, t2) ==
    /\ pc = "menu"
    /\ UNCHANGED <<users, listed, io_fault, notification_queue, queue, spawned,
                   basic_tasks, tasks_json, basic_last>>
    /\ saves < MaxSaves
    /\ LET i == Find(tasks, id)
       IN  IF i = 0
           THEN /\ t2 = now
                /\ OnlySaid(Said("toggle", id, "not found", 0, Snapshot))
           ELSE LET flipped == flip(tasks, i)
                    task == flipped[i]
                    earned == calculate_points(task, now)
                    total == points + earned
                    recorded == Append(milestone_history,
                                       CompletionRecord(task, earned, t2))
                    seen == IF total >= Milestone
                            THEN milestone_recorded(recorded) ELSE "skipped"
                IN  /\ UNCHANGED <<undo_stack, categories, next_uuid>>
                    /\ OtherFilesUnchanged
                    /\ IF ~task.completed
                       THEN /\ t2 = now
                            /\ save_tasks(flipped, points, milestone_history)
                            /\ last' = Said("toggle", id, Outcome("toggled"), 0, Snapshot)
                            /\ pc' = returned
                            /\ UNCHANGED <<now, points, milestone_history>>
                       ELSE /\ now' = t2
                            /\ points' = total
                            /\ IF seen = "KeyError"
                               THEN /\ tasks' = flipped
                                    /\ milestone_history' = recorded
                                    /\ last' = Said("toggle", id, "KeyError", earned, Snapshot)
                                    /\ pc' = "crashed"
                                    /\ UNCHANGED <<users_json, saves, rounds>>
                               ELSE /\ milestone_history' =
                                         IF seen = "false"
                                         THEN Append(recorded, MilestoneRecord)
                                         ELSE recorded
                                    /\ save_tasks(flipped, total, milestone_history')
                                    /\ last' = Said("toggle", id, Outcome("toggled"), earned, Snapshot)
                                    /\ pc' = returned

\* vars(t): the dict of a task's fields, as json.dump writes it
vars_of(t) == [k \in DOMAIN t |-> t[k]]

\* a reading of the file that keeps id, title and due date and takes the
\* dataclass defaults for the rest
from_dict_defaults(data) ==
    Task(data.id, data.title, "low", data.due_date, FALSE, 0, "none")

\* Task(**data) on a dict json.load returned
from_dict(data) ==
    Task(data.id, data.title, data.priority, data.due_date, data.completed,
         data.progress, data.recurring)

\* menu choice 8, format json: the list is written to the named file
export_tasks ==
    /\ pc = "menu"
    /\ UNCHANGED <<users, listed, io_fault, notification_queue, queue, spawned,
                   basic_tasks, tasks_json, basic_last>>
    /\ export_file' = FileOf([i \in 1..Len(tasks) |-> vars_of(tasks[i])])
    /\ last' = Said("export", 0, "exported", 0, NoSnapshot)
    /\ pc' = "sweep"
    /\ UNCHANGED <<now, tasks, points, milestone_history, undo_stack, categories,
                   next_uuid, shared_tasks_file, cloud_tasks_file, users_json, saves, rounds>>

\* menu choice 9 on the exported .json file: open() raises FileNotFoundError
\* when it is not there, and nothing in run catches it
import_tasks ==
    /\ pc = "menu"
    /\ UNCHANGED <<users, listed, io_fault, notification_queue, queue, spawned,
                   basic_tasks, tasks_json, basic_last>>
    /\ saves < MaxSaves
    /\ IF ~export_file.exists
       THEN /\ last' = Said("import", 0, "FileNotFoundError", 0, NoSnapshot)
            /\ pc' = "crashed"
            /\ UNCHANGED <<now, tasks, points, milestone_history, undo_stack,
                           categories, next_uuid, shared_tasks_file,
                           cloud_tasks_file, export_file, users_json, saves, rounds>>
       ELSE /\ save_tasks(tasks \o [i \in 1..Len(export_file.data) |->
                                        from_dict(export_file.data[i])],
                           points, milestone_history)
            /\ last' = Said("import", 0, Outcome("imported"), 0, Snapshot)
            /\ pc' = returned
            /\ UNCHANGED <<now, points, milestone_history, undo_stack, categories,
                           next_uuid>>
            /\ OtherFilesUnchanged

\* menu choice 11
manage_categories(action, cat) ==
    /\ pc = "menu"
    /\ UNCHANGED <<users, listed, io_fault, notification_queue, queue, spawned,
                   basic_tasks, tasks_json, basic_last>>
    /\ saves < MaxSaves
    /\ IF action = "r" /\ cat \notin categories
       THEN OnlySaid(Said("categories", 0, "not found", 0, NoSnapshot))
       ELSE /\ categories' = IF action = "a" THEN categories \cup {cat}
                             ELSE categories \ {cat}
            /\ save_tasks(tasks, points, milestone_history)
            /\ last' = Said("categories", 0, Outcome(action), 0, NoSnapshot)
            /\ pc' = returned
            /\ UNCHANGED <<now, points, milestone_history, undo_stack, next_uuid>>
            /\ OtherFilesUnchanged

\* _sync_cloud_tasks on the list ts when cloud_tasks.json exists
sync_cloud_tasks(ts) == merge_by_id(ts, cloud_tasks_file.data)

\* menu choice 15
sync_cloud(action) ==
    /\ pc = "menu"
    /\ UNCHANGED <<users, listed, io_fault, notification_queue, queue, spawned,
                   basic_tasks, tasks_json, basic_last>>
    /\ IF action = "t" \/ (action = "f" /\ ~cloud_tasks_file.exists)
       THEN \* _save_cloud_tasks has no try around its open()
            /\ IF io_fault = "cloud_tasks.json"
               THEN /\ UNCHANGED cloud_tasks_file
                    /\ last' = Said("cloud", 0, "OSError", 0, NoSnapshot)
                    /\ pc' = "crashed"
               ELSE /\ cloud_tasks_file' = FileOf(tasks)
                    /\ last' = Said("cloud", 0, action, 0, NoSnapshot)
                    /\ pc' = "sweep"
            /\ UNCHANGED <<now, tasks, points, milestone_history, undo_stack,
                           categories, next_uuid, shared_tasks_file, export_file,
                           users_json, saves, rounds>>
       ELSE IF action = "f" /\ io_fault = "cloud_tasks.json"
       THEN \* the read fails inside the try of _sync_cloud_tasks
            OnlySaid(Said("cloud", 0, "unread", 0, NoSnapshot))
       ELSE IF action = "f"
       THEN \* an OSError of the nested _save_tasks is logged by the except
            \* clause of _sync_cloud_tasks
            /\ saves < MaxSaves
            /\ save_tasks(sync_cloud_tasks(tasks), points, milestone_history)
            /\ last' = Said("cloud", 0, "merged", 0, NoSnapshot)
            /\ pc' = "sweep"
            /\ UNCHANGED <<now, points, milestone_history, undo_stack, categories,
                           next_uuid>>
            /\ OtherFilesUnchanged
       ELSE OnlySaid(Said("cloud", 0, "invalid", 0, NoSnapshot))

\* a command that dies of an exception nothing catches, having changed
\* nothing
OnlyRaised(said) ==
    /\ last' = said
    /\ pc' = "crashed"
    /\ UNCHANGED <<now, tasks, points, milestone_history, undo_stack, categories,
                   next_uuid, shared_tasks_file, cloud_tasks_file, export_file,
                   users_json, saves, rounds>>

\* menu choice 6: display_tasks takes page and page_size only, so the call
\* display_tasks(page=1, tasks=filtered) raises TypeError
filter_tasks ==
    /\ pc = "menu"
    /\ UNCHANGED <<users, listed, io_fault, notification_queue, queue, spawned,
                   basic_tasks, tasks_json, basic_last>>
    /\ OnlyRaised(Said("filter", 0, "TypeError", 0, NoSnapshot))

\* menu choice 7, start and end date left blank: the same call as in
\* filter_tasks
search_tasks ==
    /\ pc = "menu"
    /\ UNCHANGED <<users, listed, io_fault, notification_queue, queue, spawned,
                   basic_tasks, tasks_json, basic_last>>
    /\ OnlyRaised(Said("search", 0, "TypeError", 0, NoSnapshot))

\* menu choice 10: completed/total*100 divides by the number of tasks
show_dashboard ==
    /\ pc = "menu"
    /\ UNCHANGED <<users, listed, io_fault, notification_queue, queue, spawned,
                   basic_tasks, tasks_json, basic_last>>
    /\ IF Len(tasks) = 0
       THEN OnlyRaised(Said("dashboard", 0, "ZeroDivisionError", 0, NoSnapshot))
       ELSE OnlySaid(Said("dashboard", 0, "shown", 0, NoSnapshot))

\* menu choice 16, left with Enter
check_milestones ==
    /\ pc = "menu"
    /\ UNCHANGED <<users, listed, io_fault, notification_queue, queue, spawned,
                   basic_tasks, tasks_json, basic_last>>
    /\ OnlySaid(Said("milestones", 0, "shown", 0, NoSnapshot))

\* a choice that is none of "1".."17": "Invalid choice. Please try again."
invalid_choice ==
    /\ pc = "menu"
    /\ UNCHANGED <<users, listed, io_fault, notification_queue, queue, spawned,
                   basic_tasks, tasks_json, basic_last>>
    /\ OnlySaid(Said("invalid", 0, "invalid choice", 0, NoSnapshot))

\* menu choice 17
exit ==
    /\ pc = "menu"
    /\ UNCHANGED <<users, listed, io_fault, notification_queue, queue, spawned,
                   basic_tasks, tasks_json, basic_last>>
    /\ pc' = "exited"
    /\ last' = Said("exit", 0, "exiting", 0, NoSnapshot)
    /\ UNCHANGED <<now, tasks, points, milestone_history, undo_stack, categories,
                   next_uuid, shared_tasks_file, cloud_tasks_file, export_file,
                   users_json, saves, rounds>>

\* the program is started again: TaskManager() loads the roster and logs
\* in with credentials that match the default user or no one
restart ==
    /\ pc \in {"exited", "crashed"}
    /\ LET loaded == load_users(users_json, io_fault)
           user == default_user(loaded)
       IN  /\ users' = {u.username : u \in loaded}
           /\ listed' = (user \in loaded)
           /\ tasks' = user.tasks
           /\ points' = user.points
           /\ milestone_history' = user.history
           /\ categories' = IF user.tasks = <<>> THEN {} ELSE {"general"}
    /\ undo_stack' = <<>>
    /\ notification_queue' = <<>>
    /\ queue' = <<>>
    /\ pc' = "menu"
    /\ last' = Said("load", 0, "loaded", 0, NoSnapshot)
    /\ UNCHANGED <<now, next_uuid, shared_tasks_file, cloud_tasks_file,
                   export_file, users_json, saves, rounds, io_fault, spawned,
                   basic_tasks, tasks_json, basic_last>>

(* -------------------------------------------------------- recurrence sweep *)

\* new_task without the shift of the due date
new_task_same_due(task, uid) ==
    [task EXCEPT !.id = uid, !.completed = FALSE]

\* the successor the sweep builds from a task: Task(**vars(task)) with a
\* new id, completed False and the due date moved on
new_task(task, uid) ==
    [task EXCEPT !.id = uid,
                 !.completed = FALSE,
                 !.due_date = isoformat(fromisoformat(task.due_date)
                                  + (IF task.recurring = "daily"
                                     THEN DailyDays ELSE WeeklyDays))]

\* the seconds without input after which the dispatcher plays the idle
\* animation, and the seconds the animation keeps playing
IdleSeconds == 15

\* readings of time.time() - last_input_time, ten seconds apart
MaxElapsed == 2
Elapsed == {10 * e : e \in 0..MaxElapsed}

\* idle_animation(last_input_time, queue): its loop runs while the queue
\* is empty and fewer than IdleSeconds have passed since the last input,
\* and puts True on the queue when a key is read; elapsed is the clock
\* reading of its loop test, which is not earlier than the caller's
idle_animation(q, elapsed) ==
    IF q = <<>> /\ elapsed < IdleSeconds THEN {q, <<TRUE>>} ELSE {q}

\* the loop over the recurring tasks the list held when the sweep began
\* (its first n entries), from index i on; uid is the next uuid
RECURSIVE sweep_from(_, _, _, _)
sweep_from(ts, i, n, uid) ==
    IF i > n THEN [tasks |-> ts, uuid |-> uid]
    ELSE IF /\ ts[i].recurring # "none"
            /\ ts[i].completed
            /\ now > fromisoformat(ts[i].due_date)
    THEN sweep_from(Append([ts EXCEPT ![i].completed = FALSE], new_task(ts[i], uid)),
                    i + 1, n, uid + 1)
    ELSE sweep_from(ts, i + 1, n, uid)

\* the ids of the tasks the sweep clones, in the order it clones them
sweep_parents(ts) ==
    LET again == SelectSeq(ts, LAMBDA task :
                     /\ task.recurring # "none"
                     /\ task.completed
                     /\ now > fromisoformat(task.due_date))
    IN  [k \in 1..Len(again) |-> again[k].id]

\* two readings of the time since the last input, the caller's and the
\* one in idle_animation's loop test: time.time() is the wall clock, which
\* runs forward unless it is set back between the two
SteadyClock == {r \in Elapsed \X Elapsed : r[2] >= r[1]}
SteppedClock == Elapsed \X Elapsed

\* the end of a dispatcher iteration (lines 763-774) and the top of the
\* next, with the clock readings drawn from `readings`
recurrence_sweep_at(readings) ==
    /\ pc = "sweep"
    /\ UNCHANGED <<users, listed, io_fault, notification_queue,
                   basic_tasks, tasks_json, basic_last>>
    /\ LET swept == sweep_from(tasks, 1, Len(tasks), next_uuid)
           parents == sweep_parents(tasks)
       IN  /\ next_uuid' = swept.uuid
           /\ spawned' = spawned \cup {<<parents[k], next_uuid + k - 1>> :
                                           k \in 1..Len(parents)}
           /\ IF swept.uuid # next_uuid
              THEN save_tasks(swept.tasks, points, milestone_history)
              ELSE UNCHANGED <<tasks, users_json, saves, rounds>>
           /\ IF swept.uuid # next_uuid /\ snapshot_raises
              THEN /\ pc' = "crashed"
                   /\ last' = Said("sweep", 0, "OSError", 0, NoSnapshot)
                   /\ queue' = queue
              ELSE \* back at the top of the loop: the menu is printed,
                   \* while not queue.empty() the alerts are taken, and
                   \* past IdleSeconds without input the animation runs
                   /\ pc' = IF queue = <<>> THEN "menu" ELSE "draining"
                   /\ last' = Remembered(last)
                   /\ \E r \in readings :
                        queue' \in IF r[1] > IdleSeconds
                                   THEN idle_animation(queue, r[2])
                                   ELSE {queue}
    /\ UNCHANGED <<now, points, milestone_history, undo_stack, categories>>
    /\ OtherFilesUnchanged

\* the same while the clock runs forward
recurrence_sweep == recurrence_sweep_at(SteadyClock)

(* ------------------------------------------------------------- environment *)

\* time passes while the dispatcher waits at the menu prompt
Tick ==
    /\ pc = "menu"
    /\ UNCHANGED <<users, listed, io_fault, notification_queue, queue, spawned,
                   basic_tasks, tasks_json, basic_last>>
    /\ now < MaxTime
    /\ now' = now + 1
    /\ UNCHANGED <<pc, tasks, points, milestone_history, undo_stack, categories,
                   next_uuid, shared_tasks_file, cloud_tasks_file, export_file,
                   users_json, saves, rounds, last>>

\* the files whose I/O can fail: the roster, its backup copy, the task
\* snapshot, the shared file and the cloud file
IoFaults == {"users.json", "backup_users", "backup_tasks",
             "shared_tasks.json", "cloud_tasks.json"}

\* the disk starts or stops refusing one of the files
IoFault(f) ==
    /\ pc = "menu"
    /\ io_fault # f
    /\ io_fault' = f
    /\ UNCHANGED <<pc, now, tasks, points, milestone_history, undo_stack,
                   categories, next_uuid, shared_tasks_file, cloud_tasks_file,
                   export_file, users_json, saves, rounds, last, users, listed,
                   notification_queue, queue, spawned,
                   basic_tasks, tasks_json, basic_last>>

\* between two sessions users.json is removed, cut short or overwritten
UsersWritten(file) ==
    /\ pc \in {"exited", "crashed"}
    /\ users_json # file
    /\ users_json' = file
    /\ UNCHANGED <<pc, now, tasks, points, milestone_history, undo_stack,
                   categories, next_uuid, shared_tasks_file, cloud_tasks_file,
                   export_file, saves, rounds, last, users, listed, io_fault, spawned,
                   basic_tasks, tasks_json, basic_last,
                   notification_queue, queue>>

\* between two sessions the disk starts or stops refusing users.json
UsersFault(f) ==
    /\ pc \in {"exited", "crashed"}
    /\ io_fault # f
    /\ io_fault' = f
    /\ UNCHANGED <<pc, now, tasks, points, milestone_history, undo_stack,
                   categories, next_uuid, shared_tasks_file, cloud_tasks_file,
                   export_file, users_json, saves, rounds, last, users, listed,
                   notification_queue, queue, spawned,
                   basic_tasks, tasks_json, basic_last>>

\* another party writes or removes shared_tasks.json
SharedWritten(file) ==
    /\ pc = "menu"
    /\ UNCHANGED <<users, listed, io_fault, notification_queue, queue, spawned,
                   basic_tasks, tasks_json, basic_last>>
    /\ shared_tasks_file # file
    /\ shared_tasks_file' = file
    /\ UNCHANGED <<pc, now, tasks, points, milestone_history, undo_stack,
                   categories, next_uuid, cloud_tasks_file, export_file,
                   users_json, saves, rounds, last>>

\* the notifier alerts a task whose due date is at most AlertSeconds away
AlertSeconds == 3600
SecondsPerDay == 86400

\* the longest the notification queue grows
MaxAlerts == 3

\* (due - datetime.now()).total_seconds()
total_seconds(due, t) == (fromisoformat(due) - t) * SecondsPerDay

\* the text put on the notification queue for a task
Alert(task) == [alert |-> task.title]

\* the incomplete tasks one pass of the notifier alerts
due_soon(ts, t) ==
    SelectSeq(ts, LAMBDA task :
        ~task.completed /\ total_seconds(task.due_date, t) <= AlertSeconds)

\* one pass of the notifier thread's loop, which then sleeps; the thread is
\* a daemon and ends with the session
notify_tasks ==
    /\ pc \notin {"crashed", "exited"}
    /\ LET alerted == due_soon(tasks, now)
       IN  /\ Len(notification_queue) + Len(alerted) <= MaxAlerts
           /\ notification_queue' =
                  notification_queue \o [i \in 1..Len(alerted) |-> Alert(alerted[i])]
    /\ UNCHANGED <<pc, now, tasks, points, milestone_history, undo_stack,
                   categories, next_uuid, shared_tasks_file, cloud_tasks_file,
                   export_file, users_json, saves, rounds, last, users, listed, io_fault, queue, spawned,
                   basic_tasks, tasks_json, basic_last>>

\* the dispatcher's "while not queue.empty(): print(notification_queue.get())":
\* the test is on the queue local to run, which nothing empties, and get()
\* waits while the notification queue is empty
drain_notifications ==
    /\ pc = "draining"
    /\ notification_queue # <<>>
    /\ notification_queue' = Tail(notification_queue)
    /\ UNCHANGED <<pc, now, tasks, points, milestone_history, undo_stack,
                   categories, next_uuid, shared_tasks_file, cloud_tasks_file,
                   export_file, users_json, saves, rounds, last, users, listed, io_fault, queue, spawned,
                   basic_tasks, tasks_json, basic_last>>

(* ------------------------------------------- the basic variant's sort *)

\* the longest list the basic variant starts from
MaxLen == 3

\* a Task of task_manager.py, with the fields its sort reads
BasicTask(id, priority, created) ==
    [id |-> id, title |-> "a", priority |-> priority,
     created_at |-> isoformat(created)]

\* the priorities typed at add_task's free-text prompt
BasicPriorities == {"high", "medium", "low", "HIGH", "urgent"}

\* the lists load_tasks can return
BasicLists ==
    UNION { [1..n -> BasicPriorities \X (0..MaxTime)] : n \in 0..MaxLen }

BasicList(f) == [i \in DOMAIN f |-> BasicTask(i, f[i][1], f[i][2])]

\* an order that ranks medium before high
priority_order_swapped(p) ==
    IF p = "medium" THEN 0 ELSE IF p = "high" THEN 1 ELSE IF p = "low" THEN 2 ELSE 3

\* priority_order.get(p, 3)
priority_order(p) ==
    IF p = "high" THEN 0 ELSE IF p = "medium" THEN 1 ELSE IF p = "low" THEN 2 ELSE 3

\* list.sort(key=...) is stable: an item goes behind the items whose key
\* is not greater.  The items here are <<key, task>>.
RECURSIVE insert_stable(_, _)
insert_stable(sorted, x) ==
    IF sorted = <<>> THEN <<x>>
    ELSE IF x[1] < sorted[Len(sorted)][1]
    THEN Append(insert_stable(SubSeq(sorted, 1, Len(sorted) - 1), x),
                sorted[Len(sorted)])
    ELSE Append(sorted, x)

RECURSIVE list_sort(_)
list_sort(keyed) ==
    IF keyed = <<>> THEN <<>>
    ELSE insert_stable(list_sort(SubSeq(keyed, 1, Len(keyed) - 1)),
                       keyed[Len(keyed)])

\* tasks.sort(key=lambda t: priority_order.get(t.priority.lower(), 3))
sort_by_priority(ts) ==
    LET sorted == list_sort([i \in 1..Len(ts) |->
                      <<priority_order(lower(ts[i].priority)), ts[i]>>])
    IN  [i \in 1..Len(ts) |-> sorted[i][2]]

\* tasks.sort(key=lambda t: t.created_at): the ISO texts of
\* datetime.now().isoformat() order as the instants they denote
sort_by_created_at(ts) ==
    LET sorted == list_sort([i \in 1..Len(ts) |->
                      <<fromisoformat(ts[i].created_at), ts[i]>>])
    IN  [i \in 1..Len(ts) |-> sorted[i][2]]

\* task_manager.py starts: load_tasks reads tasks.json
InitSort ==
    /\ MainState(0, <<>>, NoRoster)
    /\ listed = TRUE
    /\ io_fault = "none"
    /\ \E f \in BasicLists : basic_tasks = BasicList(f)
    /\ tasks_json = FileOf(basic_tasks)
    /\ basic_last = [op |-> "none", key |-> "", before |-> <<>>]

\* menu choice 6 of task_manager.py, with the sort key typed
sort_tasks(sort_by) ==
    /\ basic_tasks' = IF lower(sort_by) = "priority"
                      THEN sort_by_priority(basic_tasks)
                      ELSE sort_by_created_at(basic_tasks)
    /\ tasks_json' = FileOf(basic_tasks')
    /\ basic_last' = [op |-> "sort", key |-> sort_by, before |-> basic_tasks]
    /\ UNCHANGED <<pc, now, tasks, points, milestone_history, undo_stack,
                   categories, next_uuid, shared_tasks_file, cloud_tasks_file,
                   export_file, users_json, saves, rounds, last, users, listed,
                   io_fault, notification_queue, queue, spawned>>

\* the sort keys typed
SortKeys == {"priority", "PRIORITY", "created_at", "title"}

(* ---------------------------------------------------------- specifications *)

\* The dispatcher with the task commands on offer, the clock running and
\* another party writing shared_tasks.json.
Next ==
    \/ \E inp \in AddInputs : add_task(inp)
    \/ \E id \in IdInputs, inp \in EditInputs : edit_task(id, inp)
    \/ \E id \in IdInputs : delete_task(id)
    \/ undo_delete
    \/ \E id \in IdInputs, t2 \in now..MaxTime : toggle_complete(id, t2)
    \/ exit
    \/ recurrence_sweep
    \/ Tick
    \/ SharedWritten(FileOf(<<Ext(201, "x"), Ext(1, "x")>>))
    \/ SharedWritten(NoFile)

Spec == Init /\ [][Next]_vars

\* The dispatcher with the file commands on offer next to add, delete
\* and undo.
NextSync ==
    \/ \E inp \in SyncAddInputs : add_task(inp)
    \/ \E id \in IdInputs : delete_task(id)
    \/ undo_delete
    \/ export_tasks
    \/ import_tasks
    \/ manage_categories("a", "work")
    \/ \E action \in {"t", "f", "x"} : sync_cloud(action)
    \/ recurrence_sweep
    \/ \E arr \in SharedArrays : SharedWritten(FileOf(arr))
    \/ SharedWritten(NoFile)

SpecSync == Init /\ [][NextSync]_vars

\* A returning user who adds tasks and toggles them.
NextMilestone ==
    \/ \E inp \in SyncAddInputs : add_task(inp)
    \/ \E id \in IdInputs, t2 \in now..MaxTime : toggle_complete(id, t2)
    \/ \E id \in IdInputs : delete_task(id)
    \/ recurrence_sweep
    \/ Tick

SpecMilestone == InitReturning /\ [][NextMilestone]_vars

\* The dispatcher with the viewing commands on offer next to add and
\* toggle.
NextMenu ==
    \/ \E inp \in SyncAddInputs : add_task(inp)
    \/ \E id \in IdInputs, t2 \in now..MaxTime : toggle_complete(id, t2)
    \/ filter_tasks
    \/ search_tasks
    \/ show_dashboard
    \/ check_milestones
    \/ invalid_choice
    \/ exit
    \/ recurrence_sweep
    \/ Tick

SpecMenu == Init /\ [][NextMenu]_vars

\* The dispatcher on a disk that can refuse any one file.
NextFaults ==
    \/ add_task(PlainAdd)
    \/ \E id \in IdInputs : delete_task(id)
    \/ undo_delete
    \/ manage_categories("a", "work")
    \/ \E action \in {"t", "f"} : sync_cloud(action)
    \/ recurrence_sweep
    \/ \E f \in IoFaults \cup {"none"} : IoFault(f)
    \/ SharedWritten(FileOf(<<Ext(201, "x"), Ext(1, "x")>>))

SpecFaults == Init /\ [][NextFaults]_vars

\* The dispatcher after either outcome of the login.
NextLogin ==
    \/ \E inp \in SyncAddInputs : add_task(inp)
    \/ \E id \in IdInputs : delete_task(id)
    \/ undo_delete
    \/ \E id \in IdInputs : \E t2 \in now..MaxTime : toggle_complete(id, t2)
    \/ recurrence_sweep
    \/ Tick

SpecLogin == authenticate /\ [][NextLogin]_vars

\* The dispatcher with the notifier thread polling beside it.
NextNotifier ==
    \/ \E inp \in SyncAddInputs : add_task(inp)
    \/ \E id \in IdInputs : \E t2 \in now..MaxTime : toggle_complete(id, t2)
    \/ invalid_choice
    \/ exit
    \/ recurrence_sweep
    \/ Tick
    \/ notify_tasks

SpecNotifier == Init /\ [][NextNotifier]_vars

\* Sessions that end and start again, with users.json at risk in between.
NextLoad ==
    \/ \E inp \in SyncAddInputs : add_task(inp)
    \/ \E id \in IdInputs : \E t2 \in now..MaxTime : toggle_complete(id, t2)
    \/ search_tasks
    \/ exit
    \/ recurrence_sweep
    \/ \E file \in {NoRoster, Truncated, Malformed} : UsersWritten(file)
    \/ \E f \in {"users.json", "none"} : UsersFault(f)
    \/ restart

SpecLoad == Init /\ [][NextLoad]_vars

\* Toggles and sweeps over a list that starts with a daily task.
NextRecur ==
    \/ \E inp \in SyncAddInputs : add_task(inp)
    \/ \E id \in IdInputs : \E t2 \in now..MaxTime : toggle_complete(id, t2)
    \/ recurrence_sweep
    \/ Tick

SpecRecur == InitRecurring /\ [][NextRecur]_vars

\* The dispatcher and the notifier while the wall clock may be set back.
NextIdle ==
    \/ \E inp \in SyncAddInputs : add_task(inp)
    \/ invalid_choice
    \/ recurrence_sweep_at(SteppedClock)
    \/ Tick
    \/ notify_tasks
    \/ drain_notifications

SpecIdle == Init /\ [][NextIdle]_vars

\* The basic variant sorting the lists it can load.
NextSort == \E sort_by \in SortKeys : sort_tasks(sort_by)

SpecSort == InitSort /\ [][NextSort]_vars

(* ================================================================= claims *)

\* a step in which the dispatcher runs the command op: it leaves the menu
\* prompt, and the command reports itself
CommandStep(op) == pc = "menu" /\ pc' # "menu" /\ last'.op = op

\* a task that is c except for id, completed and due date
SameOtherFields(c, t) ==
    /\ c.title = t.title
    /\ c.priority = t.priority
    /\ c.progress = t.progress
    /\ c.recurring = t.recurring

(* ---- C1 ---------------------------------------------------------------- *)

\* the tasks the claim says the sweep acts on
C1_Meets(t) ==
    /\ t.recurring \in {"daily", "weekly"}
    /\ t.completed
    /\ fromisoformat(t.due_date) < now

C1_IsClone(c, t) ==
    /\ c.id \notin Ids(tasks)
    /\ ~c.completed
    /\ fromisoformat(c.due_date) =
          fromisoformat(t.due_date) + (IF t.recurring = "daily" THEN 1 ELSE 7)
    /\ SameOtherFields(c, t)

C1_SweepAsClaimed ==
    LET n == Len(tasks)
        Q == {i \in 1..n : C1_Meets(tasks[i])}
        New == (n + 1)..Len(tasks')
    IN  /\ Len(tasks') = n + Cardinality(Q)
        /\ \A i \in 1..n :
              tasks'[i] = IF i \in Q THEN [tasks[i] EXCEPT !.completed = FALSE]
                          ELSE tasks[i]
        /\ \E f \in [Q -> New] :
              /\ \A i, k \in Q : i # k => f[i] # f[k]
              /\ \A i \in Q : C1_IsClone(tasks'[f[i]], tasks[i])
        /\ \A j, k \in New : j # k => tasks'[j].id # tasks'[k].id

\* C1 as stated: every run of the recurrence sweep leaves the list as the
\* old list with each daily or weekly task that is completed and past due
\* reset to not completed, plus exactly one clone per such task (new id,
\* not completed, due date 1 or 7 days later, other fields copied), and
\* every other task untouched.
C1_Original == [][pc = "sweep" => C1_SweepAsClaimed]_vars

\* the list the sweep's loop is expected to build
C1_Due(t) == t.recurring # "none" /\ t.completed /\ fromisoformat(t.due_date) < now

C1_Expected ==
    LET n == Len(tasks)
        Q == {i \in 1..n : C1_Due(tasks[i])}
        Rank(i) == Cardinality({k \in Q : k < i})
        Source(r) == CHOOSE i \in Q : Rank(i) = r
        Clone(t, uid) ==
            Task(uid, t.title, t.priority,
                 [fmt |-> "iso",
                  at |-> t.due_date.at + (IF t.recurring = "daily" THEN 1 ELSE 7)],
                 FALSE, t.progress, t.recurring)
    IN  [k \in 1..(n + Cardinality(Q)) |->
            IF k <= n
            THEN (IF k \in Q THEN [tasks[k] EXCEPT !.completed = FALSE] ELSE tasks[k])
            ELSE Clone(tasks[Source(k - n - 1)], next_uuid + (k - n - 1))]

\* C1 as amended: the sweep acts on every completed, past-due task whose
\* recurrence is anything but "none", shifting by 1 day when it is "daily"
\* and by 7 days otherwise; it resets those tasks, appends one clone each
\* and leaves the rest untouched; and when it changed anything and
\* shared_tasks.json exists, the save that follows merges that file into
\* the resulting list by id.
C1_SweepThenMerge ==
    [][pc = "sweep" =>
         tasks' = IF C1_Expected = tasks THEN tasks
                  ELSE IF shared_tasks_file.exists
                  THEN merge_by_id(C1_Expected, shared_tasks_file.data)
                  ELSE C1_Expected]_vars

\* a sweep has just cloned a daily task: the original and its clone are
\* both pending, the clone due one day later
C1_Witness ==
    /\ pc = "menu"
    /\ \E i, j \in 1..Len(tasks) :
          /\ i < j
          /\ tasks[i].recurring = "daily"
          /\ ~tasks[i].completed /\ ~tasks[j].completed
          /\ tasks[j].id # tasks[i].id
          /\ tasks[j].due_date = isoformat(fromisoformat(tasks[i].due_date) + 1)
          /\ SameOtherFields(tasks[j], tasks[i])

(* ---- C2 ---------------------------------------------------------------- *)

\* the merged list as the claim words it
C2_Claimed(cur, ext) ==
    LET Version(t) ==
            IF t.id \in Ids(ext)
            THEN ext[CHOOSE j \in 1..Len(ext) :
                        /\ ext[j].id = t.id
                        /\ \A k \in (j + 1)..Len(ext) : ext[k].id # t.id]
            ELSE t
        IsNew(e) == e.id \notin Ids(cur)
    IN  [i \in 1..Len(cur) |-> Version(cur[i])] \o SelectSeq(ext, IsNew)

\* the list a save leaves when it begins with the list ts
C2_ClaimedSave(ts) ==
    IF shared_tasks_file.exists THEN C2_Claimed(ts, shared_tasks_file.data) ELSE ts

\* the commands whose only effect on the list is a merge: adding a
\* category (the shared merge of its save) and sync-from-cloud with the
\* cloud file present (the cloud merge, then the shared merge of its save)
C2_SharedMergeStep == CommandStep("categories") /\ last'.outcome = "a"
C2_CloudMergeStep == CommandStep("cloud") /\ last'.outcome = "merged"

\* C2 as stated: a sync merge leaves the current tasks in their order,
\* each one whose id occurs in the external array replaced in place by the
\* external version, followed by the external tasks whose ids were not in
\* the current list, in external order.
C2_Original ==
    [][/\ C2_SharedMergeStep => tasks' = C2_ClaimedSave(tasks)
       /\ C2_CloudMergeStep =>
             tasks' = C2_ClaimedSave(C2_Claimed(tasks, cloud_tasks_file.data))]_vars

\* the merged list as amended: one task per id, the ids in the order of
\* their first occurrence in current followed by external, each id with
\* the version that occurs last
C2_Amended(cur, ext) ==
    LET all == cur \o ext
        IsFirst(i) == \A j \in 1..(i - 1) : all[j].id # all[i].id
        Firsts == {i \in 1..Len(all) : IsFirst(i)}
        Rank(i) == Cardinality({k \in Firsts : k < i})
        Latest(id) == all[CHOOSE j \in 1..Len(all) :
                             /\ all[j].id = id
                             /\ \A k \in (j + 1)..Len(all) : all[k].id # id]
    IN  [r \in 1..Cardinality(Firsts) |->
            Latest(all[CHOOSE i \in Firsts : Rank(i) = r - 1].id)]

C2_AmendedSave(ts) ==
    IF shared_tasks_file.exists THEN C2_Amended(ts, shared_tasks_file.data) ELSE ts

\* C2 as amended: a sync merge leaves one task per distinct id, the ids in
\* the order of their first occurrence in the current list followed by
\* the external array, each id carrying its last version there (external
\* over current).  When no id repeats inside either, that is the list the
\* claim describes.
C2_MergeByFirstId ==
    [][/\ C2_SharedMergeStep => tasks' = C2_AmendedSave(tasks)
       /\ C2_CloudMergeStep =>
             tasks' = C2_AmendedSave(C2_Amended(tasks, cloud_tasks_file.data))]_vars

\* a save has merged [1, 2] with the shared array [201, 1]: task 1 is the
\* external version in place, task 2 is kept, task 201 is appended
C2_Witness ==
    /\ pc = "sweep"
    /\ last.op = "categories"
    /\ shared_tasks_file = FileOf(<<Ext(201, "x"), Ext(1, "x")>>)
    /\ Len(tasks) = 3
    /\ tasks[1] = Ext(1, "x")
    /\ tasks[2].id = 2
    /\ tasks[3] = Ext(201, "x")

(* ---- C3 ---------------------------------------------------------------- *)

\* a toggle command that found its task: the step from the menu that
\* prints the toggle message or dies of the KeyError after the award
ToggleStep == CommandStep("toggle") /\ last'.outcome \in {"toggled", "KeyError"}

\* the task a toggle step is about, as it was before the step
Toggled == tasks[Find(tasks, last'.id)]

\* the history records that carry a task's completion
Completions(hist) == SelectSeq(hist, LAMBDA m : "task_id" \in DOMAIN m)

C3_Score(t) ==
    10 + (IF t.priority = "high" THEN 5 ELSE 0)
       + (IF now <= fromisoformat(t.due_date) THEN 5 ELSE 0)

\* C3: a toggle that takes a task from not completed to completed adds
\* 10, plus 5 for priority high, plus 5 when now <= due date, to the
\* points and appends exactly one completion record with that value.
C3_Award ==
    [][(ToggleStep /\ ~Toggled.completed) =>
         /\ points' = points + C3_Score(Toggled)
         /\ Len(Completions(milestone_history')) =
               Len(Completions(milestone_history)) + 1
         /\ LET done == Completions(milestone_history')
            IN  /\ SubSeq(done, 1, Len(done) - 1) = Completions(milestone_history)
                /\ done[Len(done)].task_id = last'.id
                /\ done[Len(done)].points = C3_Score(Toggled)]_vars

\* a high-priority task has just been completed before its due date, for
\* 20 points, and a record of 20 ends the history
C3_Witness ==
    /\ pc = "sweep"
    /\ last.op = "toggle" /\ last.outcome = "toggled"
    /\ LET t == last.before.tasks[Find(last.before.tasks, last.id)]
       IN  /\ ~t.completed
           /\ t.priority = "high"
           /\ now <= fromisoformat(t.due_date)
    /\ last.award = 20
    /\ points = last.before.points + 20
    /\ milestone_history # <<>>
    /\ milestone_history[Len(milestone_history)].points = 20

(* ---- C4 ---- *)

\* the milestone-crossed records for 50 in a history
MilestoneRecords(hist) ==
    SelectSeq(hist, LAMBDA m : "milestone" \in DOMAIN m /\ m.milestone = 50)

\* C4: once completions have brought the points to 50 or more, the
\* milestone-crossed record for 50 is in the milestone history exactly
\* once, and it is still exactly once after every further completion.
C4_MilestoneOnce ==
    points >= 50 => Len(MilestoneRecords(milestone_history)) = 1

\* a further task has been completed after the milestone was crossed: the
\* points were already 50 or more, the completion added its award and its
\* record, and the history holds the milestone record once
C4_Witness ==
    /\ last.op = "toggle"
    /\ last.award > 0
    /\ last.before.points >= 50
    /\ Len(MilestoneRecords(last.before.history)) = 1
    /\ points = last.before.points + last.award
    /\ Len(milestone_history) = Len(last.before.history) + 1
    /\ Len(MilestoneRecords(milestone_history)) = 1

(* ---- C5 ---- *)

\* a toggle step whose command comes right after a toggle of the same
\* task: the earlier toggle is still what the session remembers
C5_SecondToggle ==
    /\ ToggleStep
    /\ last.op = "toggle" /\ last.outcome = "toggled"
    /\ last.id = last'.id

\* the task before the first toggle, and after the second
C5_Before == last.before.tasks[Find(last.before.tasks, last.id)]
C5_After == tasks'[Find(tasks', last'.id)]

\* what the claim says of the second toggle: the flag is back, and after
\* false, true, false the points are up by the one award and the history
\* still ends with what the first toggle appended
C5_Restored ==
    /\ C5_After.completed = C5_Before.completed
    /\ ~C5_Before.completed =>
          /\ points' = last.before.points + last.award
          /\ last.award = points - last.before.points
          /\ milestone_history' = milestone_history
          /\ Len(milestone_history) > Len(last.before.history)

C5_Shared ==
    /\ shared_tasks_file.exists
    /\ Find(shared_tasks_file.data, last'.id) # 0

C6_Invalid(inp) ==
    \/ inp.progress.kind = "int" /\ inp.progress.val \notin 0..100
    \/ inp.priority \notin {"", "low", "medium", "high", "HIGH"}
    \/ inp.recurring \notin {"", "none", "daily", "weekly"}

\* C6: an add command with a progress outside 0..100, an unknown priority
\* or an unknown recurrence appends no task and saves nothing.
C6_AddRejected ==
    [][\A inp \in AddInputs :
          (add_task(inp) /\ C6_Invalid(inp)) =>
             /\ tasks' = tasks
             /\ next_uuid' = next_uuid
             /\ users_json' = users_json
             /\ saves' = saves
             /\ UNCHANGED <<shared_tasks_file, cloud_tasks_file, export_file>>]_vars

\* an add has just been turned down by the test on progress, priority and
\* recurrence, in a session that already has a task and a saved roster,
\* and the list and the roster are as they were
C6_Witness ==
    /\ pc = "sweep"
    /\ last.op = "add" /\ last.outcome = "rejected"
    /\ last.before.tasks # <<>>
    /\ tasks = last.before.tasks
    /\ users_json # NoRoster
    /\ saves > 0

(* ---- C7 ---- *)

\* an edit, a delete or a toggle of the task id
C7_Command(id) ==
    \/ \E inp \in EditInputs : edit_task(id, inp)
    \/ delete_task(id)
    \/ \E t2 \in now..MaxTime : toggle_complete(id, t2)

\* C7: an edit, delete or toggle given an id that no task of the list has
\* leaves the task list, the points, the milestone history, the undo stack
\* and the persisted files as they were.
C7_NotFoundNoChange ==
    [][\A id \in IdInputs :
          (C7_Command(id) /\ id \notin Ids(tasks)) =>
             UNCHANGED <<tasks, points, milestone_history, undo_stack, users_json,
                         saves, shared_tasks_file, cloud_tasks_file, export_file>>]_vars

\* a command has just answered "not found" in a session that has a task,
\* points and a saved roster
C7_Witness ==
    /\ pc = "sweep"
    /\ last.op \in {"edit", "delete", "toggle"}
    /\ last.outcome = "not found"
    /\ last.id \notin Ids(tasks)
    /\ tasks # <<>> /\ tasks = last.before.tasks
    /\ points > 0 /\ points = last.before.points
    /\ users_json # NoRoster

(* ---- C8 ---- *)

\* what the claim calls an invalid edit: a progress that is no integer or
\* lies outside 0..100, an unknown priority or an unknown recurrence (an
\* empty answer keeps the field)
C8_Invalid(inp) ==
    \/ inp.progress.kind = "text"
    \/ inp.progress.kind = "int" /\ inp.progress.val \notin 0..100
    \/ inp.priority \notin {"", "low", "medium", "high"}
    \/ inp.recurring \notin {"", "none", "daily", "weekly"}

\* C8: an edit with an invalid field value leaves every field of the
\* edited task as it was before the edit.
C8_NoPartialMutation ==
    [][\A id \in Ids(tasks) : \A inp \in EditInputs :
          (edit_task(id, inp) /\ C8_Invalid(inp)) =>
             /\ Find(tasks', id) # 0
             /\ tasks'[Find(tasks', id)] = tasks[Find(tasks, id)]]_vars

(* ---- C9 ---- *)

\* how many times the task t is in the list ts
Count(ts, t) == Cardinality({i \in 1..Len(ts) : ts[i] = t})

\* the two lists hold exactly the same tasks, ids and field values, each
\* as many times
SameTasks(a, b) ==
    \A t \in {a[i] : i \in 1..Len(a)} \cup {b[i] : i \in 1..Len(b)} :
        Count(a, t) = Count(b, t)

\* C9: a delete of an existing task puts it on the undo stack; an undo
\* that comes right after a delete leaves the list holding exactly the
\* tasks it held before the delete; an undo with an empty stack changes
\* nothing.
C9_DeleteUndoRoundTrip ==
    [][/\ \A id \in Ids(tasks) :
             delete_task(id) =>
                undo_stack' = Append(undo_stack, tasks[Find(tasks, id)])
       /\ (undo_delete /\ last.op = "delete" /\ last.outcome = "deleted")
             => SameTasks(tasks', last.before.tasks)
       /\ (undo_delete /\ undo_stack = <<>>)
             => UNCHANGED <<tasks, points, milestone_history, undo_stack,
                            users_json, saves>>]_vars

(* ---- C10 ---- *)

\* C10: no two tasks of the current user's list have the same id.
C10_UniqueIds ==
    \A i, j \in 1..Len(tasks) : tasks[i].id = tasks[j].id => i = j

(* ---- C11 ---- *)

\* a command or a sweep has run to its end and has changed the task list,
\* the points or the milestone history
C11_Mutated ==
    /\ pc' # pc /\ pc' \in {"sweep", "menu"}
    /\ <<tasks, points, milestone_history>>' # <<tasks, points, milestone_history>>

\* C11: whichever user the login selected, after every mutating command
\* that completes users.json holds the current user's task list, points
\* and milestone history exactly as they are in memory.
C11_RosterHoldsCurrentUser ==
    [][C11_Mutated =>
          users_json' = Roster(tasks', points', milestone_history')]_vars

(* ---- C12 ---- *)

\* an import of a file that is there, into an empty task list
C12_ImportIntoEmpty == import_tasks /\ export_file.exists /\ tasks = <<>>

C13_NoIoErrorPropagates ==
    ~(pc = "crashed" /\ last.outcome = "OSError")

(* ---- C14 ---- *)

\* C14: with every due date well formed, no menu command ends the
\* session with an unhandled error.
C14_NoUnhandledError == pc # "crashed"

\* C15: every alert the notifier has put on the notification queue is
\* taken off by the time the dispatcher is back at its prompt: a pass of
\* the dispatcher loop that reaches the prompt leaves the notification
\* queue empty.
C15_AlertsDispatched ==
    [][(pc # "menu" /\ pc' = "menu") => notification_queue' = <<>>]_vars

\* C16: a pass of the notifier enqueues an alert for a task exactly when
\* the task is incomplete and its due date lies within the next hour, the
\* alerts in the order of the task list; none for a task whose due date
\* has passed.
C16_WithinNextHour(task) ==
    /\ ~task.completed
    /\ total_seconds(task.due_date, now) >= 0
    /\ total_seconds(task.due_date, now) <= AlertSeconds

C16_AlertsWithinTheHour ==
    [][notify_tasks =>
        LET claimed == SelectSeq(tasks, C16_WithinNextHour)
        IN  notification_queue' =
                notification_queue \o [i \in 1..Len(claimed) |-> Alert(claimed[i])]
      ]_vars

\* C17: when users.json is missing, is not valid JSON, or reading or
\* decoding it fails in any other way, the roster loaded at the start of a
\* session has exactly one user, the default user with no tasks, 0 points
\* and no history, and the session reaches its menu.
C17_LoadFails ==
    \/ users_json.state \in {"absent", "truncated", "malformed"}
    \/ io_fault = "users.json"

C17_DefaultRoster ==
    [][(restart /\ C17_LoadFails) =>
        /\ users' = {"default"}
        /\ listed'
        /\ tasks' = <<>>
        /\ points' = 0
        /\ milestone_history' = <<>>
        /\ pc' = "menu"
      ]_vars

\* a session that began from a users.json of the wrong shape, after an
\* earlier session had tasks
C17_Witness ==
    /\ last.op = "load"
    /\ users_json.state = "malformed"
    /\ users = {"default"}
    /\ tasks = <<>>
    /\ next_uuid > 1

\* C18: a command or sweep that saves runs the persistence pipeline once,
\* and the pipeline is one _save_tasks call (one roster write with its
\* backup copy, one snapshot, one merge): the merge starts no further call,
\* whether or not the shared file exists.
C18_OnePipelineOneRound ==
    [][saves' # saves => (saves' = saves + 1 /\ rounds' = 1)]_vars

\* C19: in the dispatcher loop every choice but exit is followed by one
\* recurrence sweep, after which the menu is shown again; the sweep saves
\* only if it changed a task; the exit choice ends the loop with no sweep.
C19_Choice == pc = "menu" /\ pc' # "menu"

C19_OneSweepPerChoice ==
    [][/\ (C19_Choice /\ last'.op # "exit") => pc' = "sweep"
       /\ (C19_Choice /\ last'.op = "exit") => pc' = "exited"
       /\ pc = "sweep" => /\ pc' = "menu"
                          /\ saves' # saves => tasks' # tasks
       /\ pc = "exited" => pc' = "exited"
      ]_vars

\* C20: when a delete command on an existing task id has completed, save
\* and shared-file sync included, the current user's list holds no task
\* with that id; and a deleted id enters the list again only by an undo,
\* an import or a sync-from-cloud command.
C20_Deleted == {undo_stack[i].id : i \in 1..Len(undo_stack)}

C20_DeleteRemoves ==
    [][/\ (CommandStep("delete") /\ last'.outcome = "deleted")
            => last'.id \notin Ids(tasks')
       /\ \A id \in C20_Deleted :
            (id \notin Ids(tasks) /\ id \in Ids(tasks'))
                => last'.op \in {"undo", "import", "cloud"}
      ]_vars

\* C21: the task list never holds two clones of the same original task
\* that have the same due date.
C21_Held(id) == tasks[Find(tasks, id)]

C21_OneClonePerOccurrence ==
    \A p \in spawned, q \in spawned :
        (/\ p[1] = q[1]
         /\ p[2] # q[2]
         /\ p[2] \in Ids(tasks)
         /\ q[2] \in Ids(tasks))
            => C21_Held(p[2]).due_date # C21_Held(q[2]).due_date

\* C22: every completion record in the milestone history has points equal
\* to the base points plus its own priority bonus plus its own timeliness
\* bonus, whatever the due date and the moment of the toggle.
C22_SelfConsistent ==
    \A i \in 1..Len(milestone_history) :
        LET m == milestone_history[i]
        IN  "task_id" \in DOMAIN m
                => m.points = BasePoints + m.priority_bonus + m.timeliness_bonus

\* C23: the dispatcher never blocks on the notification queue: it is never
\* inside notification_queue.get() while that queue is empty.
C23_NeverBlocked == ~(pc = "draining" /\ notification_queue = <<>>)

\* C24: in the basic variant a sort by priority leaves every high task
\* before every medium one, every medium before every low, every low
\* before the tasks of any other priority, keeps the order of tasks of
\* equal rank, and neither adds nor drops a task; a sort by any other key
\* leaves the list in ascending order of created_at.
C24_Rank(t) ==
    IF t.priority \in {"high", "HIGH"} THEN 0
    ELSE IF t.priority = "medium" THEN 1
    ELSE IF t.priority = "low" THEN 2
    ELSE 3

C24_ByPriority(a, b) ==
    /\ SameTasks(a, b)
    /\ Len(a) = Len(b)
    /\ \A i \in 1..Len(b), j \in 1..Len(b) :
         i < j => /\ C24_Rank(b[i]) <= C24_Rank(b[j])
                  /\ C24_Rank(b[i]) = C24_Rank(b[j])
                        => Find(a, b[i].id) < Find(a, b[j].id)

C24_ByCreatedAt(a, b) ==
    /\ SameTasks(a, b)
    /\ Len(a) = Len(b)
    /\ \A i \in 1..Len(b), j \in 1..Len(b) :
         i < j => fromisoformat(b[i].created_at) <= fromisoformat(b[j].created_at)

C24_SortOrders ==
    [][\A sort_by \in SortKeys :
         sort_tasks(sort_by) =>
            IF sort_by \in {"priority", "PRIORITY"}
            THEN C24_ByPriority(basic_tasks, basic_tasks')
            ELSE C24_ByCreatedAt(basic_tasks, basic_tasks')
      ]_vars

\* a list of three, two of them of equal rank and one of an unknown
\* priority, that a sort by priority has reordered
C24_Witness ==
    /\ basic_last.op = "sort"
    /\ basic_last.key = "priority"
    /\ basic_last.before # basic_tasks
    /\ Len(basic_tasks) = MaxLen
    /\ C24_Rank(basic_tasks[1]) = C24_Rank(basic_tasks[2])
    /\ C24_Rank(basic_tasks[3]) = 3

====
